---- MODULE Spec2Model ----
(***************************************************************************)
(* A model of the LogDNA buffering client of src/logdna.go: NewClient,     *)
(* makeEndpoint, nowToMs, refreshEndpoint, Log, Size, Flush and Close,     *)
(* called by up to MaxProcs concurrent goroutines on one shared Client.    *)
(*                                                                         *)
(* Strings that pass through net/url are sequences of one-character        *)
(* tokens, so that query escaping, encoding and parsing are computed and   *)
(* not assumed.  The two query keys "hostname" and "now" are tokens of     *)
(* their own: they hold only unreserved letters, which escaping leaves     *)
(* alone.                                                                  *)
(***************************************************************************)
EXTENDS Integers, Sequences, FiniteSets, Bags, TLC

(***************************************************************************)
(* Bounds of the model.                                                    *)
(***************************************************************************)
\* the largest number of goroutines sharing the client
MaxProcs == 2
\* the largest number of Log/Flush/Close calls made in one behaviour
MaxCalls == 2
\* the same for a client whose flush limit lies above any number of lines the
\* calls can buffer, so that no Log of it flushes: its calls are fewer to
\* follow, and one more of them is followed
MaxQuietCalls == 3

(***************************************************************************)
(* Program constants.                                                      *)
(***************************************************************************)
\* logdna.go:17
IngestBaseURL == [Scheme |-> "https", Host |-> "logs.logdna.com", Path |-> "/logs/ingest"]
\* logdna.go:20
DefaultFlushLimit == 500
\* logdna.go:108, the divisor 1e6
NsPerMs == 1000000
\* net/http: http.StatusOK, logdna.go:169
StatusOK == 200

(***************************************************************************)
(* Inputs.                                                                 *)
(***************************************************************************)
Nil == "nil"

\* the time.Time values time.Now() returns, as UnixNano, call after call: one
\* before the epoch and off a millisecond boundary, then one after the epoch,
\* and so on in turn
Now(i) == IF i % 2 = 0 THEN -1500000 ELSE 12345678
\* the (t, msg) arguments of Log
LogArgs == {[t |-> -1500000, msg |-> "a"], [t |-> 12345678, msg |-> "b"]}
\* a Hostname that holds the characters the query syntax uses
Special == <<"h", "&", "n", "=", "+", " ", "%">>
\* the Config values handed to NewClient: without a key, without a hostname,
\* and with a flush limit that is unset, negative, 1 and 2
Configs == {[APIKey |-> "", Hostname |-> <<"h">>, FlushLimit |-> 1],
            [APIKey |-> "secret", Hostname |-> <<>>, FlushLimit |-> 0],
            [APIKey |-> "secret", Hostname |-> <<"h">>, FlushLimit |-> -1],
            [APIKey |-> "secret", Hostname |-> Special, FlushLimit |-> 1],
            [APIKey |-> "secret", Hostname |-> <<"h">>, FlushLimit |-> 2]}
\* what os.Hostname() can return
OsHostnames == {[h |-> <<>>, err |-> "os.Hostname failed"],
                [h |-> <<>>, err |-> Nil],
                [h |-> <<"k">>, err |-> Nil]}
\* what the transport can answer to one POST: a connection failure, a 200,
\* or another status whose body can or cannot be read
Transport == {[err |-> "post failed", StatusCode |-> 0, Body |-> "", readErr |-> Nil],
              [err |-> Nil, StatusCode |-> StatusOK, Body |-> "", readErr |-> Nil],
              [err |-> Nil, StatusCode |-> 500, Body |-> "bad", readErr |-> Nil],
              [err |-> Nil, StatusCode |-> 500, Body |-> "", readErr |-> "read failed"]}
NoResp == [err |-> Nil, StatusCode |-> 0, Body |-> "", readErr |-> Nil]

\* a Go error value: nil, or an error with its text (the text may be empty)
NilErr == [nil |-> TRUE, msg |-> ""]
Err(m) == [nil |-> FALSE, msg |-> m]

(***************************************************************************)
(* net/url: escaping, url.Values, Encode and ParseQuery.                   *)
(***************************************************************************)
\* the tokens in byte order, used by Encode to sort the keys
Alphabet == <<" ", "%", "&", "+", "-", "0", "1", "2", "3", "4", "5", "6", "7",
              "8", "9", "=", "B", "D", "h", "hostname", "k", "n", "now">>

Rank(c) == CHOOSE i \in 1..Len(Alphabet) : Alphabet[i] = c

\* Below, a value used more than once is bound by a quantifier over the set
\* that holds it alone, {e : x \in {v}}, so that it is evaluated once.

\* the concatenation of the sequences ss[i], ss[i+1], ...
RECURSIVE FlattenFrom(_, _)
FlattenFrom(ss, i) ==
    IF i > Len(ss) THEN <<>> ELSE ss[i] \o FlattenFrom(ss, i + 1)

Flatten(ss) == CHOOSE r \in {FlattenFrom(t, 1) : t \in {ss}} : TRUE

\* url.QueryEscape on one byte: space becomes "+", a reserved byte becomes %XX
EscapeChar(c) ==
    CASE c = " " -> <<"+">>
      [] c = "%" -> <<"%", "2", "5">>
      [] c = "&" -> <<"%", "2", "6">>
      [] c = "+" -> <<"%", "2", "B">>
      [] c = "=" -> <<"%", "3", "D">>
      [] OTHER   -> <<c>>

QueryEscape(s) ==
    CHOOSE r \in {Flatten([i \in 1..Len(t) |-> EscapeChar(t[i])]) : t \in {s}} : TRUE

\* the byte a %XY triple stands for; Nil when XY is not one the model escapes to
Unhex(x, y) ==
    CASE x = "2" /\ y = "5" -> "%"
      [] x = "2" /\ y = "6" -> "&"
      [] x = "2" /\ y = "B" -> "+"
      [] x = "3" /\ y = "D" -> "="
      [] OTHER -> Nil

\* url.QueryUnescape: [ok, s]; ok is FALSE on a malformed escape. As in the
\* library, one pass validates every "%" and a second one builds the result.
QueryUnescape(s) ==
    LET bad(i)  == /\ s[i] = "%"
                   /\ \/ i + 2 > Len(s)
                      \/ Unhex(s[i + 1], s[i + 2]) = Nil
        hex(i)  == \/ i > 1 /\ s[i - 1] = "%"
                   \/ i > 2 /\ s[i - 2] = "%"
        byte(i) == IF hex(i) THEN <<>>
                   ELSE IF s[i] = "%" THEN <<Unhex(s[i + 1], s[i + 2])>>
                   ELSE IF s[i] = "+" THEN <<" ">>
                   ELSE <<s[i]>>
    IN  IF \E i \in 1..Len(s) : bad(i)
        THEN [ok |-> FALSE, s |-> <<>>]
        ELSE [ok |-> TRUE, s |-> Flatten([i \in 1..Len(s) |-> byte(i)])]

\* strings.Index(s, sep), counted from 1: the index of the first sep in s, or
\* Len(s) + 1 when there is none
IndexOf(s, sep) ==
    LET at == {i \in 1..Len(s) : s[i] = sep}
    IN  IF at = {} THEN Len(s) + 1 ELSE CHOOSE i \in at : \A j \in at : i <= j

\* url.Values: a function from the keys present to their sequences of values
NoValues == [k \in {} |-> <<>>]

ValuesGet(v, k) == IF k \in DOMAIN v THEN v[k] ELSE <<>>

\* url.Values.Set: the key now holds exactly the one value
ValuesSet(v, k, x) == [j \in DOMAIN v \cup {k} |-> IF j = k THEN <<x>> ELSE v[j]]

\* url.Values.Add (used by ParseQuery): the value is appended to the key's values
ValuesAdd(v, k, x) ==
    [j \in DOMAIN v \cup {k} |-> IF j = k THEN ValuesGet(v, k) \o <<x>> ELSE v[j]]

\* byte order on keys, as sort.Strings orders them
RECURSIVE KeyLess(_, _)
KeyLess(a, b) ==
    IF a = <<>> THEN b # <<>>
    ELSE IF b = <<>> THEN FALSE
    ELSE IF Head(a) = Head(b) THEN KeyLess(Tail(a), Tail(b))
    ELSE Rank(Head(a)) < Rank(Head(b))

RECURSIVE SortedKeys(_)
SortedKeys(ks) ==
    IF ks = {} THEN <<>>
    ELSE LET m == CHOOSE k \in ks : \A j \in ks \ {k} : KeyLess(k, j)
         IN  <<m>> \o SortedKeys(ks \ {m})

\* the pairs key=value of one key, each preceded by "&"
RECURSIVE EncodeKey(_, _)
EncodeKey(k, vs) ==
    IF vs = <<>> THEN <<>>
    ELSE <<"&">> \o QueryEscape(k) \o <<"=">> \o QueryEscape(Head(vs))
         \o EncodeKey(k, Tail(vs))

\* url.Values.Encode: key=value pairs joined by "&", sorted by key
\* every key's pairs, keys in sorted order, each pair preceded by "&"
EncodePairs(v) ==
    CHOOSE r \in {Flatten([i \in 1..Len(ks) |-> EncodeKey(ks[i], v[ks[i]])]) :
                      ks \in {SortedKeys(DOMAIN v)}} : TRUE

ValuesEncode(v) ==
    CHOOSE r \in {IF all = <<>> THEN <<>> ELSE Tail(all) :
                      all \in {CHOOSE a \in {EncodePairs(w) : w \in {v}} : TRUE}} : TRUE

\* strings.Cut(s, sep): s before and after its first sep
\* s before and after its position i
CutAt(s, i) == [before |-> SubSeq(s, 1, i - 1), after |-> SubSeq(s, i + 1, Len(s))]

Cut(s, sep) ==
    CHOOSE r \in {CHOOSE c \in {CutAt(t, i) : i \in {IndexOf(t, sep)}} : TRUE :
                      t \in {s}} : TRUE

\* url.ParseQuery, errors dropped as URL.Query() drops them: the pairs are cut
\* at "&", each at its first "="; a pair with a bad escape is skipped
\* one pair key=value of a query added to v, or skipped
ParsePair(pair, v) ==
    CHOOSE r \in {IF pair = <<>> \/ ~kx[1].ok \/ ~kx[2].ok
                  THEN v ELSE ValuesAdd(v, kx[1].s, kx[2].s) :
                      kx \in {CHOOSE u \in {<<QueryUnescape(kv.before),
                                                QueryUnescape(kv.after)>> :
                                                 kv \in {Cut(pair, "=")}} : TRUE}} : TRUE

RECURSIVE ParseQuery(_, _)
ParseQuery(q, v) ==
    IF q = <<>> THEN v
    ELSE CHOOSE r \in {CHOOSE x \in {ParseQuery(c.after, w) :
                                        w \in {ParsePair(c.before, v)}} : TRUE :
                           c \in {Cut(q, "&")}} : TRUE

\* URL.Query()
Query(u) == ParseQuery(u.RawQuery, NoValues)

(***************************************************************************)
(* strconv.FormatInt(m, 10) and nowToMs.                                   *)
(***************************************************************************)
Digits == <<"0", "1", "2", "3", "4", "5", "6", "7", "8", "9">>

RECURSIVE FormatNat(_)
FormatNat(n) ==
    IF n < 10 THEN <<Digits[n + 1]>>
    ELSE FormatNat(n \div 10) \o <<Digits[(n % 10) + 1]>>

FormatInt(m) == IF m < 0 THEN <<"-">> \o FormatNat(-m) ELSE FormatNat(m)

\* a division that rounds toward minus infinity
GoDiv_Floor(a, b) == a \div b

\* Go's integer division truncates toward zero
GoDiv(a, b) == IF a >= 0 THEN a \div b ELSE -((-a) \div b)

\* nowToMs: t.UnixNano() / 1e6
nowToMs(t) == GoDiv(t, NsPerMs)

(***************************************************************************)
(* makeEndpoint, NewClient and refreshEndpoint.                            *)
(***************************************************************************)
NoURL == [Scheme |-> "", User |-> "", Host |-> "", Path |-> "", RawQuery |-> <<>>]

\* url.Parse(IngestBaseURL): the constant parses, so err is nil
ParseBase == [u |-> [Scheme |-> IngestBaseURL.Scheme, User |-> "",
                     Host |-> IngestBaseURL.Host, Path |-> IngestBaseURL.Path,
                     RawQuery |-> <<>>],
              err |-> NilErr]

makeEndpoint(c) ==
    LET r == ParseBase
    IN  IF ~r.err.nil THEN [u |-> NoURL, err |-> r.err]
        ELSE [u |-> [r.u EXCEPT !.User = c.APIKey,
                                !.RawQuery = ValuesEncode(
                                    ValuesSet(NoValues, <<"hostname">>, c.Hostname))],
              err |-> r.err]

\* a refresh that adds a second "now" value where it should replace the first
SetNow_Add(q, x) == ValuesAdd(q, <<"now">>, x)

\* q.Set("now", ...)
SetNow(q, x) == ValuesSet(q, <<"now">>, x)

\* a constructor that takes any key
MissingKey_Never(c) == FALSE

\* cfg.APIKey == ""
MissingKey(c) == c.APIKey = ""

\* NewClient(cfg), with os the answer of os.Hostname(): [ok, endpoint, flushLimit, err];
\* ok is FALSE when the returned *Client is nil
NewClient(c, os) ==
    LET fail(e) == [ok |-> FALSE, endpoint |-> NoURL, flushLimit |-> 0, err |-> e]
    IN  IF MissingKey(c) THEN fail(Err("APIKey missing in Config"))
        ELSE IF c.Hostname = <<>> /\ os.err # Nil THEN fail(Err(os.err))
        ELSE IF c.Hostname = <<>> /\ os.h = <<>>
        THEN fail(Err("Hostname missing in Config and could not use os.Hostname"))
        ELSE LET c1 == IF c.Hostname = <<>> THEN [c EXCEPT !.Hostname = os.h] ELSE c
                 c2 == IF c1.FlushLimit = 0
                       THEN [c1 EXCEPT !.FlushLimit = DefaultFlushLimit] ELSE c1
                 e  == makeEndpoint(c2)
             IN  IF ~e.err.nil THEN fail(e.err)
                 ELSE [ok |-> TRUE, endpoint |-> e.u, flushLimit |-> c2.FlushLimit,
                       err |-> NilErr]

\* refreshEndpoint with t the answer of time.Now(): the endpoint with its query
\* re-encoded after q.Set("now", ...)
refreshEndpoint(u, t) ==
    CHOOSE r \in {[u EXCEPT !.RawQuery = ValuesEncode(q)] :
                      q \in {SetNow(Query(u), FormatInt(nowToMs(t)))}} : TRUE

\* URL.String(): the request target, component by component
String(u) == [Scheme |-> u.Scheme, User |-> u.User, Host |-> u.Host,
              Path |-> u.Path, RawQuery |-> u.RawQuery]

(***************************************************************************)
(* encoding/json: the body of one request.                                 *)
(***************************************************************************)
\* one logLineJSON; by and n are history fields (the goroutine that logged
\* the line and the number of that Log call among its calls), not sent
logLineJSON(t, msg, p, k) ==
    [Timestamp |-> nowToMs(t), Line |-> msg, File |-> "", by |-> p, n |-> k]

\* payloadJSON{}: Lines is the nil slice
EmptyPayload == [Lines |-> <<>>]

\* json.NewEncoder(&buf).Encode(c.payload): {"lines": [...]} with the lines in
\* slice order, or {"lines": null} for the nil slice; a struct of strings and
\* int64 always encodes, so err is nil
Encode(pl) ==
    [buf |-> [null  |-> pl.Lines = <<>>,
              lines |-> [i \in 1..Len(pl.Lines) |->
                            [timestamp |-> pl.Lines[i].Timestamp,
                             line      |-> pl.Lines[i].Line,
                             file      |-> pl.Lines[i].File,
                             by        |-> pl.Lines[i].by,
                             n         |-> pl.Lines[i].n]]],
     err |-> NilErr]

NoBuf == [null |-> TRUE, lines |-> <<>>]

(***************************************************************************)
(* The state.                                                              *)
(***************************************************************************)
VARIABLES
    cfg,        \* the Config handed to NewClient
    made,       \* "no" before NewClient, then "ok" (a *Client) or "nil"
    newErr,     \* the error NewClient returned
    built,      \* history: the endpoint as NewClient built it
    endpoint,   \* Client.endpoint
    flushLimit, \* Client.flushLimit
    flushLock,  \* Client.flushLock: TRUE when the mutex is locked
    payload,    \* Client.payload
    pc,         \* where each goroutine is in its current call
    op,         \* the exported method each goroutine called last
    arg,        \* the arguments of its Log call
    buf,        \* Flush's local buf
    url,        \* the string c.refreshEndpoint() returned to Flush
    resp,       \* Flush's local resp, err and the outcome of ReadAll
    ferr,       \* the error the last Flush returned to its caller
    ret,        \* what the exported method returned to the caller
    holding,    \* history: the goroutines between Lock() and Unlock()
    atLock,     \* history: the payload when Flush got the lock
    sizeAfter,  \* history: the buffer length right after Log's append
    sizeRead,   \* history: what Size() returned in Log's check
    nposts,     \* history: the POSTs made during the current call
    nflush,     \* history: the calls of Flush made during the current call
    calls,      \* history: the calls made, in call order
    appended,   \* history: the lines appended, in append order
    posts       \* history: the POSTs made, in send order, each with its sender
                \* and the exported method the sender had called

client == <<endpoint, flushLimit, flushLock, payload>>
config == <<cfg, made, newErr, built>>
locals == <<pc, op, arg, buf, url, resp, ferr, ret>>
history == <<holding, atLock, sizeAfter, sizeRead, nposts, nflush, calls, appended, posts>>
vars == <<config, client, locals, history>>

Procs == 1..MaxProcs

NoArg == [t |-> 0, msg |-> ""]
\* what ret holds for a method with no result, or one that has not returned:
\* no error value, told from a returned nil by its text
Void == [nil |-> TRUE, msg |-> "void"]

Init ==
    /\ cfg \in Configs
    /\ made = "no"
    /\ newErr = NilErr
    /\ built = NoURL
    /\ endpoint = NoURL
    /\ flushLimit = 0
    /\ flushLock = FALSE
    /\ payload = EmptyPayload
    /\ pc = [p \in Procs |-> "idle"]
    /\ op = [p \in Procs |-> "none"]
    /\ arg = [p \in Procs |-> NoArg]
    /\ buf = [p \in Procs |-> NoBuf]
    /\ url = [p \in Procs |-> String(NoURL)]
    /\ resp = [p \in Procs |-> NoResp]
    /\ ferr = [p \in Procs |-> NilErr]
    /\ ret = [p \in Procs |-> Void]
    /\ holding = {}
    /\ atLock = [p \in Procs |-> EmptyPayload]
    /\ sizeAfter = [p \in Procs |-> 0]
    /\ sizeRead = [p \in Procs |-> 0]
    /\ nposts = [p \in Procs |-> 0]
    /\ nflush = [p \in Procs |-> 0]
    /\ calls = <<>>
    /\ appended = <<>>
    /\ posts = <<>>

\* Size(): len(c.payload.Lines), read without the lock; the read of the
\* length word sees the length before or after a concurrent write, as the
\* interleaving has it
Size == Len(payload.Lines)

\* the number of Log calls goroutine p has made
RECURSIVE LogCallsOf(_, _)
LogCallsOf(p, cs) ==
    IF cs = <<>> THEN 0
    ELSE (IF Head(cs).by = p /\ Head(cs).op = "Log" THEN 1 ELSE 0)
         + LogCallsOf(p, Tail(cs))

(***************************************************************************)
(* NewClient.                                                              *)
(***************************************************************************)
NewClientCall(os) ==
    /\ made = "no"
    /\ LET r == NewClient(cfg, os)
       IN  /\ made' = IF r.ok THEN "ok" ELSE "nil"
           /\ newErr' = r.err
           /\ endpoint' = r.endpoint
           /\ built' = r.endpoint
           /\ flushLimit' = r.flushLimit
    /\ flushLock' = FALSE
    /\ payload' = EmptyPayload
    /\ UNCHANGED <<cfg, locals, history>>

(***************************************************************************)
(* The callers: a goroutine with no call in progress calls Log, Flush or   *)
(* Close on the client NewClient returned.                                 *)
(***************************************************************************)
\* the number of calls followed on the client
CallBound == IF flushLimit > MaxQuietCalls THEN MaxQuietCalls ELSE MaxCalls

\* the goroutines are numbered in the order of their first calls, and a
\* goroutine that has closed the client makes no further call
CanCall(p) ==
    /\ made = "ok"
    /\ pc[p] = "idle"
    /\ op[p] # "Close"
    /\ Len(calls) < CallBound
    /\ \A q \in 1..(p - 1) : \E i \in 1..Len(calls) : calls[i].by = q

\* the caller's frame at the start of a call of method o with arguments a
Enter(p, o, a) ==
    /\ op' = [op EXCEPT ![p] = o]
    /\ arg' = [arg EXCEPT ![p] = a]
    /\ sizeRead' = [sizeRead EXCEPT ![p] = 0]
    /\ nposts' = [nposts EXCEPT ![p] = 0]
    /\ calls' = Append(calls, [by |-> p, op |-> o, t |-> a.t, msg |-> a.msg])

(***************************************************************************)
(* Log.                                                                    *)
(***************************************************************************)
\* an append that puts the new line first
appendLine_Prepend(lines, l) == <<l>> \o lines

\* an append that replaces the buffer by the new line
appendLine_Overwrite(lines, l) == <<l>>

\* append(c.payload.Lines, l)
appendLine(lines, l) == Append(lines, l)

\* a trigger that fires one line early
AtLimit_Early(size, limit) == size + 1 >= limit

\* a trigger that fires one line late
AtLimit_Late(size, limit) == size > limit

\* c.Size() >= c.flushLimit
AtLimit(size, limit) == size >= limit

\* a Log that appends without waiting for the mutex
LockAndAppend_NoWait(p, a, k) ==
    /\ flushLock' = TRUE
    /\ holding' = holding \cup {p}
    /\ LET l == logLineJSON(a.t, a.msg, p, k)
       IN  /\ payload' = [payload EXCEPT !.Lines = appendLine(payload.Lines, l)]
           /\ appended' = Append(appended, l)
    /\ sizeAfter' = [sizeAfter EXCEPT ![p] = Len(payload'.Lines)]
    /\ pc' = [pc EXCEPT ![p] = "log_unlock"]

\* c.flushLock.Lock() returns to goroutine p, which then runs
\* c.payload.Lines = append(c.payload.Lines, logLineJSON{...}) with a its
\* arguments and k the number of this Log call among its calls
LockAndAppend(p, a, k) ==
    /\ ~flushLock
    /\ flushLock' = TRUE
    /\ holding' = holding \cup {p}
    /\ LET l == logLineJSON(a.t, a.msg, p, k)
       IN  /\ payload' = [payload EXCEPT !.Lines = appendLine(payload.Lines, l)]
           /\ appended' = Append(appended, l)
    /\ sizeAfter' = [sizeAfter EXCEPT ![p] = Len(payload'.Lines)]
    /\ pc' = [pc EXCEPT ![p] = "log_unlock"]

\* goroutine p calls Log(a.t, a.msg): Lock() returns at once when the mutex is
\* unlocked, and blocks the caller otherwise
CallLog(p, a) ==
    /\ CanCall(p)
    /\ Enter(p, "Log", a)
    /\ nflush' = [nflush EXCEPT ![p] = 0]
    /\ IF flushLock
       THEN /\ pc' = [pc EXCEPT ![p] = "log_lock"]
            /\ sizeAfter' = [sizeAfter EXCEPT ![p] = 0]
            /\ UNCHANGED <<flushLock, holding, payload, appended>>
       ELSE LockAndAppend(p, a, LogCallsOf(p, calls'))
    /\ ferr' = [ferr EXCEPT ![p] = NilErr]
    /\ ret' = [ret EXCEPT ![p] = Void]
    /\ UNCHANGED <<config, endpoint, flushLimit, buf, url, resp, atLock, posts>>

\* the blocked Lock() of a Log call returns, and the line is appended
LogLock(p) ==
    /\ pc[p] = "log_lock"
    /\ LockAndAppend(p, arg[p], LogCallsOf(p, calls))
    /\ UNCHANGED <<config, endpoint, flushLimit, op, arg, buf, url, resp, ferr, ret,
                   atLock, sizeRead, nposts, nflush, calls, posts>>

\* a Log that goes on to its size check with the mutex still locked
LogUnlock_Forgotten(p) ==
    /\ pc[p] = "log_unlock"
    /\ pc' = [pc EXCEPT ![p] = "log_check"]
    /\ UNCHANGED <<config, client, op, arg, buf, url, resp, ferr, ret,
                   holding, atLock, sizeAfter, sizeRead, nposts, nflush, calls, appended, posts>>

\* c.flushLock.Unlock()
LogUnlock(p) ==
    /\ pc[p] = "log_unlock"
    /\ flushLock' = FALSE
    /\ holding' = holding \ {p}
    /\ pc' = [pc EXCEPT ![p] = "log_check"]
    /\ UNCHANGED <<config, endpoint, flushLimit, payload, op, arg, buf, url, resp, ferr, ret,
                   atLock, sizeAfter, sizeRead, nposts, nflush, calls, appended, posts>>

\* if c.Size() >= c.flushLimit { c.Flush() }; otherwise Log returns
LogCheck(p) ==
    /\ pc[p] = "log_check"
    /\ sizeRead' = [sizeRead EXCEPT ![p] = Size]
    /\ pc' = [pc EXCEPT ![p] = IF AtLimit(Size, flushLimit) THEN "flush_check"
                                ELSE "idle"]
    /\ nflush' = [nflush EXCEPT ![p] = IF pc'[p] = "flush_check" THEN @ + 1 ELSE @]
    /\ UNCHANGED <<config, client, op, arg, buf, url, resp, ferr, ret,
                   holding, atLock, sizeAfter, nposts, calls, appended, posts>>

(***************************************************************************)
(* Flush, called by the goroutine itself, by Close or by Log.              *)
(***************************************************************************)
\* a return that hands Flush's error to the caller of Log as well
Return_PassToLog(p, e) ==
    /\ pc' = [pc EXCEPT ![p] = "idle"]
    /\ buf' = [buf EXCEPT ![p] = NoBuf]
    /\ url' = [url EXCEPT ![p] = String(NoURL)]
    /\ resp' = [resp EXCEPT ![p] = NoResp]
    /\ atLock' = [atLock EXCEPT ![p] = EmptyPayload]
    /\ ferr' = [ferr EXCEPT ![p] = e]
    /\ ret' = [ret EXCEPT ![p] = e]

\* Flush returns e to its caller; Log drops the value, Close passes it on
Return(p, e) ==
    /\ pc' = [pc EXCEPT ![p] = "idle"]
    /\ buf' = [buf EXCEPT ![p] = NoBuf]
    /\ url' = [url EXCEPT ![p] = String(NoURL)]
    /\ resp' = [resp EXCEPT ![p] = NoResp]
    /\ atLock' = [atLock EXCEPT ![p] = EmptyPayload]
    /\ ferr' = [ferr EXCEPT ![p] = e]
    /\ ret' = [ret EXCEPT ![p] = IF op[p] = "Log" THEN Void ELSE e]

\* a return that leaves the mutex locked when Flush returns an error
DeferredReturn_KeepOnError(p, e) ==
    /\ flushLock' = (flushLock /\ ~e.nil)
    /\ holding' = IF e.nil THEN holding \ {p} ELSE holding
    /\ Return(p, e)

\* a return of Flush after its defer statement: the deferred
\* c.flushLock.Unlock() runs, then e is returned
DeferredReturn(p, e) ==
    /\ flushLock' = FALSE
    /\ holding' = holding \ {p}
    /\ Return(p, e)

\* if c.Size() == 0 { return nil }: Flush returns nil to its caller, or goes
\* on to Lock()
SizeCheck(p) ==
    /\ pc' = [pc EXCEPT ![p] = IF Size = 0 THEN "idle" ELSE "flush_lock"]
    /\ ferr' = [ferr EXCEPT ![p] = NilErr]
    /\ ret' = [ret EXCEPT ![p] = IF op'[p] = "Log" \/ Size # 0 THEN Void ELSE NilErr]

\* goroutine p calls Flush() and makes the size check
CallFlush(p) ==
    /\ CanCall(p)
    /\ Enter(p, "Flush", NoArg)
    /\ nflush' = [nflush EXCEPT ![p] = 1]
    /\ sizeAfter' = [sizeAfter EXCEPT ![p] = 0]
    /\ SizeCheck(p)
    /\ UNCHANGED <<config, client, buf, url, resp, holding, atLock, appended, posts>>

\* goroutine p calls Close(), which is return c.Flush()
CallClose(p) ==
    /\ CanCall(p)
    /\ Enter(p, "Close", NoArg)
    /\ nflush' = [nflush EXCEPT ![p] = 1]
    /\ sizeAfter' = [sizeAfter EXCEPT ![p] = 0]
    /\ SizeCheck(p)
    /\ UNCHANGED <<config, client, buf, url, resp, holding, atLock, appended, posts>>

\* the size check of the Flush that Log called
FlushCheck(p) ==
    /\ pc[p] = "flush_check"
    /\ UNCHANGED <<config, client, op, arg, buf, url, resp, holding, atLock, sizeAfter,
                   sizeRead, nposts, nflush, calls, appended, posts>>
    /\ SizeCheck(p)

\* c.flushLock.Lock() returns; defer c.flushLock.Unlock(); then
\* json.NewEncoder(&buf).Encode(c.payload), return err if it failed, and
\* c.refreshEndpoint(), the argument of http.Post, with time.Now() answering
\* its next value
FlushLock(p) ==
    /\ pc[p] = "flush_lock"
    /\ ~flushLock
    /\ LET e == Encode(payload)
       IN  IF e.err.nil
           THEN /\ flushLock' = TRUE
                /\ holding' = holding \cup {p}
                /\ atLock' = [atLock EXCEPT ![p] = payload]
                /\ buf' = [buf EXCEPT ![p] = e.buf]
                /\ endpoint' = refreshEndpoint(endpoint, Now(Len(posts)))
                /\ url' = [url EXCEPT ![p] = String(endpoint')]
                /\ pc' = [pc EXCEPT ![p] = "flush_post"]
                /\ UNCHANGED <<resp, ferr, ret>>
           ELSE /\ DeferredReturn(p, e.err)
                /\ UNCHANGED endpoint
    /\ UNCHANGED <<config, flushLimit, payload, op, arg,
                   sizeAfter, sizeRead, nposts, nflush, calls, appended, posts>>

\* http.Post(url, "application/json", &buf), with a the answer of the
\* transport; return err on a failure
FlushPost(p, a) ==
    /\ pc[p] = "flush_post"
    /\ posts' = Append(posts, [target |-> url[p], body |-> buf[p],
                               type |-> "application/json", answer |-> a, by |-> p,
                               op |-> op[p]])
    /\ nposts' = [nposts EXCEPT ![p] = @ + 1]
    /\ IF a.err = Nil
       THEN /\ resp' = [resp EXCEPT ![p] = a]
            /\ pc' = [pc EXCEPT ![p] = "flush_status"]
            /\ UNCHANGED <<flushLock, holding, buf, url, atLock, ferr, ret>>
       ELSE DeferredReturn(p, Err(a.err))
    /\ UNCHANGED <<config, endpoint, flushLimit, payload, op, arg,
                   sizeAfter, sizeRead, nflush, calls, appended>>

\* a switch that forgets to reset the payload on 200
Switch_NoReset(pl, r) ==
    IF r.StatusCode = StatusOK
    THEN [payload |-> pl, err |-> NilErr]
    ELSE [payload |-> pl,
          err |-> IF r.readErr # Nil THEN Err(r.readErr) ELSE Err(r.Body)]

\* a switch that resets the payload whatever the status
Switch_AlwaysReset(pl, r) ==
    IF r.StatusCode = StatusOK
    THEN [payload |-> EmptyPayload, err |-> NilErr]
    ELSE [payload |-> EmptyPayload,
          err |-> IF r.readErr # Nil THEN Err(r.readErr) ELSE Err(r.Body)]

\* what Flush does with the answer: the payload after it and the error returned.
\* On 200 the payload is reset and nil returned; otherwise the body is returned
\* as an error, or the error of reading it.  The bodies of the model hold no
\* formatting verb, so fmt.Errorf(string(b)) has the body as its text
Switch(pl, r) ==
    IF r.StatusCode = StatusOK
    THEN [payload |-> EmptyPayload, err |-> NilErr]
    ELSE [payload |-> pl,
          err |-> IF r.readErr # Nil THEN Err(r.readErr) ELSE Err(r.Body)]

\* defer resp.Body.Close(); switch resp.StatusCode { ... }
FlushStatus(p) ==
    /\ pc[p] = "flush_status"
    /\ LET r == Switch(payload, resp[p])
       IN  /\ payload' = r.payload
           /\ DeferredReturn(p, r.err)
    /\ UNCHANGED <<config, endpoint, flushLimit, op, arg,
                   sizeAfter, sizeRead, nposts, nflush, calls, appended, posts>>

Next ==
    \/ \E os \in OsHostnames : NewClientCall(os)
    \/ \E p \in Procs, a \in LogArgs : CallLog(p, a)
    \/ \E p \in Procs : CallFlush(p)
    \/ \E p \in Procs : CallClose(p)
    \/ \E p \in Procs : LogLock(p)
    \/ \E p \in Procs : LogUnlock(p)
    \/ \E p \in Procs : LogCheck(p)
    \/ \E p \in Procs : FlushCheck(p)
    \/ \E p \in Procs : FlushLock(p)
    \/ \E p \in Procs, a \in Transport : FlushPost(p, a)
    \/ \E p \in Procs : FlushStatus(p)

Spec == Init /\ [][Next]_vars

(***************************************************************************)
(* The claims.                                                             *)
(***************************************************************************)
AllIdle == \A p \in Procs : pc[p] = "idle"

\* every call so far was made by the one goroutine 1
SingleCaller == \A i \in 1..Len(calls) : calls[i].by = 1

OnlyLogCalls == \A i \in 1..Len(calls) : calls[i].op = "Log"

\* the POST was answered with status 200
Acked(post) == post.answer.err = Nil /\ post.answer.StatusCode = StatusOK

\* C1: a Flush whose POST is answered with 200 returns nil, and the buffer is
\* empty at the moment it returns.
C1_FlushOkEmptiesBuffer ==
    [][\A p \in Procs :
          (pc[p] = "flush_status" /\ resp[p].StatusCode = StatusOK /\ pc'[p] = "idle")
          => (ferr'[p].nil /\ payload'.Lines = <<>> /\ Len(payload'.Lines) = 0)]_vars

\* C1 witness: an explicit Flush sent a non-empty buffer, got a 200 and has
\* returned nil, and the buffer is empty.
C1_Witness ==
    \E p \in Procs :
        /\ pc[p] = "idle" /\ op[p] = "Flush" /\ nposts[p] = 1 /\ ret[p].nil
        /\ posts # <<>>
        /\ posts[Len(posts)].by = p
        /\ Acked(posts[Len(posts)])
        /\ posts[Len(posts)].body.lines # <<>>
        /\ Size = 0

\* C2: a Flush that ends in a transport failure or in a status other than 200
\* returns an error, and the buffer when it releases the lock is the buffer it
\* had when it took the lock.
C2_FlushFailureKeepsBuffer ==
    [][\A p \in Procs :
          (/\ pc'[p] = "idle"
           /\ \/ pc[p] = "flush_post"
              \/ pc[p] = "flush_status" /\ resp[p].StatusCode # StatusOK)
          => (~ferr'[p].nil /\ payload' = atLock[p])]_vars

\* C2 witness: a Flush of a one-line buffer was answered with a status other
\* than 200 and has returned an error, and the line is still buffered.
C2_Witness ==
    \E p \in Procs :
        /\ pc[p] = "idle" /\ op[p] \in {"Flush", "Close"} /\ ~ret[p].nil
        /\ posts # <<>>
        /\ posts[Len(posts)].by = p
        /\ posts[Len(posts)].answer.err = Nil
        /\ ~Acked(posts[Len(posts)])
        /\ Len(posts[Len(posts)].body.lines) = 1
        /\ payload.Lines = appended
        /\ Size = 1

\* C3: after N Log calls and no Flush or Close, N below the flush limit, Size()
\* is N, the buffer holds the N lines in append order, nothing was sent, and
\* when one goroutine made the calls line i carries what call i was given.
C3_LogsBelowLimitAreBuffered ==
    (made = "ok" /\ AllIdle /\ OnlyLogCalls /\ Len(calls) < flushLimit)
    => /\ Size = Len(calls)
       /\ payload.Lines = appended
       /\ posts = <<>>
       /\ SingleCaller =>
            \A i \in 1..Len(calls) :
                /\ payload.Lines[i].Line = calls[i].msg
                /\ payload.Lines[i].Timestamp = nowToMs(calls[i].t)
                /\ payload.Lines[i].File = ""

\* C3 witness: one goroutine has made two Log calls with different messages
\* under the default limit.
C3_Witness ==
    /\ made = "ok" /\ AllIdle /\ OnlyLogCalls /\ SingleCaller
    /\ Len(calls) = 2 /\ Len(calls) < flushLimit
    /\ calls[1].msg # calls[2].msg
    /\ Size = 2

\* the bag of the elements of a sequence
BagOfSeq(s) ==
    [x \in {s[i] : i \in 1..Len(s)} |-> Cardinality({i \in 1..Len(s) : s[i] = x})]

\* C4: when K goroutines have each called Log once, K below the flush limit,
\* the buffer has K lines and the bag of its (message, timestamp) pairs is the
\* bag of those logged.
C4_ConcurrentLogsAllBuffered ==
    (/\ made = "ok" /\ AllIdle /\ OnlyLogCalls /\ Len(calls) < flushLimit
     /\ \A i, j \in 1..Len(calls) : calls[i].by = calls[j].by => i = j)
    => /\ Size = Len(calls)
       /\ BagOfSeq([i \in 1..Size |-> <<payload.Lines[i].Line,
                                        payload.Lines[i].Timestamp>>])
          = BagOfSeq([i \in 1..Len(calls) |-> <<calls[i].msg, nowToMs(calls[i].t)>>])

\* C4 witness: two goroutines have each logged once, and the Size() the first
\* read after its unlock already counted the line of the second, so the two
\* calls overlapped.
C4_Witness ==
    /\ made = "ok" /\ AllIdle /\ OnlyLogCalls
    /\ Len(calls) = 2 /\ Len(calls) < flushLimit
    /\ calls[1].by # calls[2].by
    /\ Size = 2
    /\ sizeAfter[calls[1].by] = 1 /\ sizeRead[calls[1].by] = 2

\* C5: no POST is made with an empty buffer: a Flush that holds the lock and
\* is about to send has at least one line, and every body sent has one.
C5_NoEmptySend ==
    /\ \A p \in Procs : pc[p] = "flush_post" => Size >= 1
    /\ \A i \in 1..Len(posts) : posts[i].body.lines # <<>>

\* C6 as stated, for a positive flush limit: a Log call after whose append
\* the buffer size is at or above the limit has made a flush attempt when it
\* returns.
C6_Original ==
    \A p \in Procs :
        (pc[p] = "idle" /\ op[p] = "Log" /\ flushLimit > 0 /\ sizeAfter[p] >= flushLimit)
        => (nflush[p] >= 1 /\ nposts[p] >= 1)

\* C6 amended: a Log call calls Flush before it returns exactly when the
\* Size() it reads after the unlock is at or above the flush limit; and when
\* one goroutine makes all the calls, a Log call after whose append the size
\* is at or above the limit makes exactly one POST, and any other Log call
\* makes none.
C6_LogTriggersFlush ==
    \A p \in Procs :
        (pc[p] = "idle" /\ op[p] = "Log")
        => /\ (sizeRead[p] >= flushLimit) <=> (nflush[p] = 1)
           /\ nflush[p] = 0 => nposts[p] = 0
           /\ SingleCaller =>
                IF sizeAfter[p] >= flushLimit THEN nposts[p] = 1 ELSE nposts[p] = 0

\* C6 witness: with limit 1, the first and only call is a Log, it has
\* returned, and it made one POST.
C6_Witness ==
    /\ flushLimit = 1 /\ Len(calls) = 1
    /\ pc[1] = "idle" /\ op[1] = "Log"
    /\ sizeAfter[1] = 1 /\ nposts[1] = 1 /\ Len(posts) = 1

\* C7: a caller that has returned from Log, Flush or Close does not hold the
\* lock, and the mutex is locked only while some caller holds it.
C7_LockReleasedOnReturn ==
    /\ \A p \in Procs : pc[p] = "idle" => p \notin holding
    /\ flushLock <=> holding # {}

\* C7 witness: a Flush has returned an error after its POST and the mutex is
\* unlocked.
C7_Witness ==
    \E p \in Procs :
        /\ pc[p] = "idle" /\ op[p] = "Flush" /\ nposts[p] = 1 /\ ~ferr[p].nil
        /\ ~flushLock

\* the lines of one goroutine come in the order of its calls
InCallOrder(lines) ==
    \A i, j \in 1..Len(lines) :
        (i < j /\ lines[i].by = lines[j].by) => lines[i].n < lines[j].n

\* C8: the lines of one goroutine are in call order in the buffer and in
\* every body sent, and an earlier line is never acknowledged in a later
\* POST than a later line of the same goroutine.
C8_ProducerOrder ==
    /\ InCallOrder(payload.Lines)
    /\ \A k \in 1..Len(posts) : InCallOrder(posts[k].body.lines)
    /\ \A k, l \in 1..Len(posts) :
          (Acked(posts[k]) /\ Acked(posts[l]))
          => \A i \in 1..Len(posts[k].body.lines), j \in 1..Len(posts[l].body.lines) :
                LET a == posts[k].body.lines[i]
                    b == posts[l].body.lines[j]
                IN  (a.by = b.by /\ a.n < b.n) => k <= l

\* C8 witness: a goroutine's two lines were acknowledged in two POSTs, the
\* first line in the first.
C8_Witness ==
    /\ Len(posts) = 2 /\ Acked(posts[1]) /\ Acked(posts[2])
    /\ Len(posts[1].body.lines) = 1 /\ Len(posts[2].body.lines) = 1
    /\ posts[1].body.lines[1].by = posts[2].body.lines[1].by
    /\ posts[1].body.lines[1].n = 1 /\ posts[2].body.lines[1].n = 2

\* the request target u has the credential, the base address and the one
\* hostname value NewClient set, and no parameter but hostname and now
SameButNow(u, q) ==
    /\ u.User = cfg.APIKey /\ u.User = built.User
    /\ u.Scheme = IngestBaseURL.Scheme
    /\ u.Host = IngestBaseURL.Host
    /\ u.Path = IngestBaseURL.Path
    /\ ValuesGet(q, <<"hostname">>) = ValuesGet(Query(built), <<"hostname">>)
    /\ Len(ValuesGet(q, <<"hostname">>)) = 1
    /\ cfg.Hostname # <<>> => ValuesGet(q, <<"hostname">>) = <<cfg.Hostname>>
    /\ DOMAIN q \subseteq {<<"hostname">>, <<"now">>}

\* C9: every step that makes a request appends it to the requests made and
\* leaves the earlier ones and the endpoint as they were; its target is the
\* endpoint as refreshed for it, which carries the credential, the base
\* address and the hostname parameter NewClient set, no parameter other than
\* hostname and now, and exactly one now value.
C9_RefreshChangesOnlyNow ==
    [][posts' # posts =>
         /\ Len(posts') = Len(posts) + 1
         /\ SubSeq(posts', 1, Len(posts)) = posts
         /\ posts'[Len(posts')].target = String(endpoint)
         /\ endpoint' = endpoint
         /\ LET q == Query(endpoint)
            IN  /\ SameButNow(endpoint, q)
                /\ Len(ValuesGet(q, <<"now">>)) = 1]_vars

\* C9 witness: two POSTs with different now values were made for a hostname
\* that needs escaping.
C9_Witness ==
    /\ cfg.Hostname = Special
    /\ Len(posts) = 2
    /\ posts[1].target # posts[2].target
    /\ posts[1].target.User = posts[2].target.User

\* C10: NewClient with an empty APIKey returns an error and no client, and
\* nothing is ever logged, flushed or sent.
C10_EmptyKeyFails ==
    (cfg.APIKey = "" /\ made # "no")
    => /\ made = "nil"
       /\ ~newErr.nil
       /\ calls = <<>> /\ appended = <<>> /\ posts = <<>>
       /\ AllIdle
       /\ Size = 0

\* C10 witness: NewClient has returned for a Config without a key.
C10_Witness == cfg.APIKey = "" /\ made = "nil" /\ newErr.msg = "APIKey missing in Config"

\* C11: at most one goroutine is between Lock() and Unlock() at any time;
\* every step that writes the buffer or, once the client is shared, the
\* endpoint is a step of the one goroutine that holds the lock during it; and
\* no line is appended while a Flush is between serializing the buffer and
\* returning.
C11_WritesUnderLock ==
    [][/\ Cardinality(holding) <= 1 /\ Cardinality(holding') <= 1
       /\ (holding' # {}) <=> flushLock'
       /\ (payload' # payload \/ (made = "ok" /\ endpoint' # endpoint)) =>
            \E p \in Procs :
                /\ holding \cup holding' = {p}
                /\ pc'[p] # pc[p]
                /\ \A q \in Procs \ {p} : pc'[q] = pc[q]
       /\ appended' # appended =>
            \A q \in Procs : pc[q] \notin {"flush_post", "flush_status"}
       /\ \A q \in Procs :
            (pc[q] \in {"flush_post", "flush_status"}) =>
                /\ payload = atLock[q]
                /\ buf[q] = Encode(payload).buf]_vars

\* C11 witness: a Flush has sent the buffer and holds the lock while another
\* goroutine's Log waits in Lock(), its line not appended.
C11_Witness ==
    \E p, q \in Procs :
        /\ pc[p] = "flush_status" /\ holding = {p}
        /\ pc[q] = "log_lock"
        /\ payload = atLock[p] /\ Size >= 1
        /\ Len(appended) = Size

\* the lines of the payloads of the POSTs of ps answered with 200, in send order
RECURSIVE AckedLines(_)
AckedLines(ps) ==
    IF ps = <<>> THEN <<>>
    ELSE (IF Acked(Head(ps)) THEN Head(ps).body.lines ELSE <<>>)
         \o AckedLines(Tail(ps))

\* the lines appended so far and the lines of the buffer, as they are sent
AppendedLines == Encode([Lines |-> appended]).buf.lines

BufferLines == Encode(payload).buf.lines

\* the POSTs whose Flush has dealt with the answer: all of them, but for the
\* last one while its Flush still stands between http.Post and the switch
SettledPosts ==
    IF \E p \in Procs : pc[p] = "flush_status"
    THEN SubSeq(posts, 1, Len(posts) - 1)
    ELSE posts

\* C12 as stated: in every reachable state the lines of the POSTs answered
\* with 200, in send order, followed by the buffer are the lines appended so far.
C12_Original == AckedLines(posts) \o BufferLines = AppendedLines

\* C12: in every reachable state the lines of the POSTs answered with 200 to
\* which Flush has reacted, in send order, followed by the buffer are the
\* lines appended so far, in append order; when the lock is free these are all
\* the POSTs answered with 200.
C12_Delivery ==
    /\ AckedLines(SettledPosts) \o BufferLines = AppendedLines
    /\ ~flushLock => SettledPosts = posts

\* C12 witness: the lock is free, one line was acknowledged in a POST answered
\* with 200 and a line appended later is in the buffer.
C12_Witness ==
    /\ ~flushLock
    /\ Len(appended) = 2 /\ Size = 1
    /\ \E i \in 1..Len(posts) : Acked(posts[i]) /\ Len(posts[i].body.lines) = 1

\* every POST made so far was answered with 200
AlwaysOK == \A i \in 1..Len(posts) : Acked(posts[i])

\* C13: with one goroutine making the calls, a positive flush limit and a
\* transport that has answered 200 to every POST, whenever no call is in
\* progress the buffer size is at least 0 and below the limit, and it is 0
\* when the call that returned last made a POST.
C13_IdleBelowLimit ==
    (made = "ok" /\ SingleCaller /\ flushLimit > 0 /\ AlwaysOK /\ AllIdle)
    => /\ 0 <= Size /\ Size < flushLimit
       /\ payload.Lines = SubSeq(appended, Len(appended) - Size + 1, Len(appended))
       /\ (nposts[1] > 0 \/ op[1] \in {"Flush", "Close"}) => Size = 0

\* C13 witness: with limit 2 one goroutine's second Log reached the limit, the
\* two lines were sent in one POST answered with 200, and the buffer is empty.
C13_Witness ==
    /\ made = "ok" /\ SingleCaller /\ flushLimit = 2 /\ AlwaysOK /\ AllIdle
    /\ Len(calls) = 2 /\ OnlyLogCalls
    /\ Len(posts) = 1 /\ Len(posts[1].body.lines) = 2
    /\ Size = 0

\* the goroutines that have made a call
Callers == {calls[i].by : i \in 1..Len(calls)}

C15_LogNeverWaitsForSend ==
    \A p, q \in Procs :
        ~(/\ flushLimit > MaxQuietCalls
          /\ op[p] = "Log" /\ pc[p] = "log_lock"
          /\ pc[q] = "flush_post")

\* s is the beginning of t
IsPrefix(s, t) == Len(s) <= Len(t) /\ SubSeq(t, 1, Len(s)) = s

\* the line of goroutine p's current Log call, as it is sent
SentLine(p) ==
    [timestamp |-> nowToMs(arg[p].t), line |-> arg[p].msg, file |-> "",
     by |-> p, n |-> LogCallsOf(p, calls)]

\* no POST of ps was answered with 200, but perhaps the last one, made by p
NoAckBefore(ps, p) ==
    \A i \in 1..Len(ps) :
        Acked(ps[i]) => (i = Len(ps) /\ ps[i].by = p)

\* C16: a call of an exported method calls Flush at most once and a Flush makes
\* at most one POST. A POST made from a Log call carries the whole buffer;
\* when the POST before it failed, it carries the lines of that POST first,
\* and, with one caller or with no POST answered with 200 so far, the line of
\* this Log call as well (with one caller and the retained lines at or above
\* the limit: exactly the retained lines and the new line). And with one caller, or with no POST answered with 200 before
\* its own, a Log call after whose append the size is at or above the limit
\* has made exactly one POST when it returns.
C16_RetryOnLaterCall ==
    [][/\ \A p \in Procs : nposts'[p] <= nflush'[p] /\ nflush'[p] <= 1
       /\ posts' # posts =>
            LET new == posts'[Len(posts')]
                p   == new.by
            IN  new.op = "Log" =>
                  /\ new.body = Encode(payload).buf
                  /\ (posts # <<>> /\ ~Acked(posts[Len(posts)])) =>
                        /\ IsPrefix(posts[Len(posts)].body.lines, new.body.lines)
                        /\ (/\ SingleCaller
                            /\ Len(posts[Len(posts)].body.lines) >= flushLimit) =>
                              new.body.lines =
                                  Append(posts[Len(posts)].body.lines, SentLine(p))
                  /\ (SingleCaller \/ NoAckBefore(posts, 0)) =>
                        \E i \in 1..Len(new.body.lines) :
                            new.body.lines[i] = SentLine(p)
       /\ \A p \in Procs :
            (/\ pc[p] # "idle" /\ pc'[p] = "idle" /\ op[p] = "Log"
             /\ sizeAfter[p] >= flushLimit
             /\ SingleCaller \/ NoAckBefore(posts', p))
            => (nposts'[p] = 1 /\ nflush'[p] = 1)]_vars

\* C16 witness: one goroutine's Log reached the limit and its POST failed; its
\* next Log made a second POST, with the retained line and the new one, and
\* has returned.
C16_Witness ==
    /\ SingleCaller /\ OnlyLogCalls /\ AllIdle /\ Len(calls) = 2
    /\ Len(posts) = 2
    /\ ~Acked(posts[1]) /\ Len(posts[1].body.lines) = 1
    /\ posts[2].op = "Log" /\ Len(posts[2].body.lines) = 2
    /\ nposts[1] = 1

\* what a Flush whose POST got the answer a returns
Outcome(a) ==
    IF a.err # Nil THEN Err(a.err)
    ELSE IF a.StatusCode = StatusOK THEN NilErr
    ELSE IF a.readErr # Nil THEN Err(a.readErr)
    ELSE Err(a.Body)

\* the last POST was made from a Log call and failed, and the buffer still
\* holds the lines it carried
FailedLogFlushPending ==
    /\ posts # <<>>
    /\ payload.Lines # <<>>
    /\ posts[Len(posts)].op = "Log"
    /\ ~Acked(posts[Len(posts)])
    /\ Encode(payload).buf = posts[Len(posts)].body

\* C17: a Log call returns no value, whatever the answer to the POST of its
\* flush, and when that POST failed the buffer is left as it was. A Flush or
\* Close called while the buffer is still the one of a failed POST of a Log
\* goes on to Lock(); its POST, made on the unchanged buffer, carries the same
\* lines; and a Flush or Close that has made a POST returns the outcome of
\* that POST.
C17_LogSwallowsFlushError ==
    [][\A p \in Procs :
          /\ op'[p] = "Log" => ret'[p] = Void
          /\ (/\ op[p] = "Log" /\ pc'[p] = "idle"
              /\ \/ pc[p] = "flush_post"
                 \/ pc[p] = "flush_status" /\ resp[p].StatusCode # StatusOK)
             => (~ferr'[p].nil /\ payload' = payload)
          /\ (/\ FailedLogFlushPending
              /\ Len(calls') = Len(calls) + 1
              /\ calls'[Len(calls')].by = p
              /\ calls'[Len(calls')].op \in {"Flush", "Close"})
             => pc'[p] = "flush_lock"
          /\ (/\ FailedLogFlushPending
              /\ pc[p] = "flush_post" /\ op[p] \in {"Flush", "Close"}
              /\ posts' # posts)
             => posts'[Len(posts')].body = posts[Len(posts)].body
          /\ (/\ op[p] \in {"Flush", "Close"}
              /\ pc[p] \in {"flush_post", "flush_status"} /\ pc'[p] = "idle")
             => /\ nposts'[p] = 1
                /\ posts'[Len(posts')].by = p
                /\ ret'[p] = Outcome(posts'[Len(posts')].answer)]_vars

\* C17 witness: a Log's own flush failed and the Log returned no value; the
\* same goroutine then called Flush, which sent the same line, got a 200 and
\* returned nil.
C17_Witness ==
    /\ Len(posts) = 2 /\ AllIdle /\ SingleCaller
    /\ posts[1].op = "Log" /\ ~Acked(posts[1])
    /\ posts[2].op = "Flush" /\ Acked(posts[2])
    /\ posts[2].body = posts[1].body /\ Len(posts[1].body.lines) = 1
    /\ calls[1].op = "Log" /\ calls[2].op = "Flush"
    /\ ret[1] = NilErr /\ Size = 0

(***************************************************************************)
(* The same program under a scheduler that lets every goroutine with a     *)
(* call in progress run: a Lock() on the free mutex returns, the transport *)
(* answers, and the statements in between are executed.                    *)
(***************************************************************************)
\* the steps of goroutine p within a call
Step(p) ==
    \/ LogLock(p)
    \/ LogUnlock(p)
    \/ LogCheck(p)
    \/ FlushCheck(p)
    \/ FlushLock(p)
    \/ \E a \in Transport : FlushPost(p, a)
    \/ FlushStatus(p)

FairSpec == Spec /\ \A p \in Procs : WF_vars(Step(p))

\* C18: a goroutine never calls Flush, from Log or directly, with the lock in
\* its own hands, and every call in progress eventually returns.
C18_EveryCallReturns ==
    /\ [](\A p \in Procs :
            (pc[p] \in {"log_check", "flush_check", "flush_lock"}) => p \notin holding)
    /\ \A p \in Procs : (pc[p] # "idle") ~> (pc[p] = "idle")

\* C18 witness: the Flush that a Log called waits for the lock, which another
\* goroutine's Flush holds during its POST.
C18_Witness ==
    \E p, q \in Procs :
        /\ op[p] = "Log" /\ pc[p] = "flush_lock" /\ p \notin holding
        /\ pc[q] = "flush_post" /\ holding = {q}

\* C19: every client NewClient returns has a positive flush limit: the
\* configured one when it is set, and DefaultFlushLimit when it is zero.
C19_PositiveLimit ==
    made = "ok" =>
        /\ flushLimit > 0
        /\ flushLimit = IF cfg.FlushLimit = 0 THEN DefaultFlushLimit ELSE cfg.FlushLimit

\* instants around the epoch and around millisecond boundaries, in nanoseconds
Instants == {-12345678, -2000000, -1500000, -1000001, -1000000, -999999, -1, 0,
             1, 999999, 1000000, 1000001, 1500000, 2000000, 12345678}

\* m is t / NsPerMs cut toward zero: m milliseconds lie between zero and t,
\* less than one millisecond away from t
IsTruncated(t, m) ==
    IF t >= 0
    THEN m >= 0 /\ m * NsPerMs <= t /\ t < (m + 1) * NsPerMs
    ELSE m <= 0 /\ m * NsPerMs >= t /\ t > (m - 1) * NsPerMs

====
